---- MODULE Spec2Model ----
(***************************************************************************)
(* Model of UserDatabase (src/script.py): one table `users` in a SQLite    *)
(* file, and the four public methods add_user, authenticate,               *)
(* get_user_by_id and update_email, each opening one connection through    *)
(* the get_connection context manager.                                     *)
(*                                                                         *)
(* len(), the email regular expression and int() are computed on the       *)
(* characters of a string (Chars), not assumed.                            *)
(* A Python value returned to the caller is a pair (type, val) where val   *)
(* is a tuple: <<>> for None, <<n>> for an int or a bool (True is 1, as in *)
(* Python, where bool is a subclass of int), <<id, username, email>> for a *)
(* fetched row.                                                            *)
(***************************************************************************)
EXTENDS Integers, Sequences, FiniteSets, TLC

VARIABLES
    users,      \* the rows of table users, in rowid order
    openConns,  \* number of sqlite3 connections currently open
    last,       \* the last call made: method, arguments, injected fault, outcome
    prev,       \* the table as it was when the last call was made
    created     \* ghost: log of the successful add_user calls

vars == <<users, openConns, last, prev, created>>

(***************************** bounds **************************************)
\* number of distinct values bcrypt.gensalt() draws from
MaxSalt == 1
\* number of distinct values secrets.token_hex(16) draws from
MaxKey == 2

(***************************** strings *************************************)
LowerCase == {"a","b","c","d","e","f","g","h","i","j","k","l","m",
              "n","o","p","q","r","s","t","u","v","w","x","y","z"}
UpperCase == {"A","B","C","D","E","F","G","H","I","J","K","L","M",
              "N","O","P","Q","R","S","T","U","V","W","X","Y","Z"}
DigitSeq == <<"0","1","2","3","4","5","6","7","8","9">>
DigitChars == {DigitSeq[i] : i \in 1..10}
Letters == LowerCase \cup UpperCase

\* the three character classes of email_pattern
LocalClass == Letters \cup DigitChars \cup {".", "_", "%", "+", "-"}
DomainClass == Letters \cup DigitChars \cup {".", "-"}
TldClass == Letters

AllIn(s, lo, hi, class) == \A k \in lo..hi : s[k] \in class

\* re.match(r'^[a-zA-Z0-9._%+-]+@[a-zA-Z0-9.-]+\.[a-zA-Z]{2,}$', s):
\* `$` matches at the end of the string and also just before a final newline.
MatchUpTo(s, n) ==
    \E at \in 2..n : \E dot \in (at + 2)..(n - 2) :
        /\ AllIn(s, 1, at - 1, LocalClass)
        /\ s[at] = "@"
        /\ AllIn(s, at + 1, dot - 1, DomainClass)
        /\ s[dot] = "."
        /\ AllIn(s, dot + 1, n, TldClass)

RegexMatch(s) ==
    \/ MatchUpTo(s, Len(s))
    \/ Len(s) > 0 /\ s[Len(s)] = "\n" /\ MatchUpTo(s, Len(s) - 1)

\* int(s) for a str s: decimal digits only (the model passes no sign,
\* blank or underscore forms)
IsDecimal(s) == Len(s) > 0 /\ \A k \in 1..Len(s) : s[k] \in DigitChars

DigitVal(c) == (CHOOSE i \in 1..10 : DigitSeq[i] = c) - 1

RECURSIVE DecimalValue(_)
DecimalValue(s) ==
    IF Len(s) = 0 THEN 0
    ELSE 10 * DecimalValue(SubSeq(s, 1, Len(s) - 1)) + DigitVal(s[Len(s)])

(***************************** inputs **************************************)
\* The strings the callers pass. The state holds a string as a TLA+ string;
\* Chars spells it out wherever the code looks inside it.
Chars(s) ==
    CASE s = ""         -> <<>>
      [] s = "al"       -> <<"a","l">>
      [] s = "bob"      -> <<"b","o","b">>
      [] s = "eve"      -> <<"e","v","e">>
      [] s = "pass123"  -> <<"p","a","s","s","1","2","3">>
      [] s = "password" -> <<"p","a","s","s","w","o","r","d">>
      [] s = "passwore" -> <<"p","a","s","s","w","o","r","e">>
      [] s = "a@b"      -> <<"a","@","b">>
      [] s = "a@b.co"   -> <<"a","@","b",".","c","o">>
      [] s = "n@b.co"   -> <<"n","@","b",".","c","o">>
      [] s = "2"        -> <<"2">>
      [] s = "x"        -> <<"x">>

\* len(s)
PyLen(s) == Len(Chars(s))

\* what add_user is called with: "password" is the one valid password users
\* register, "bob" and "eve" the two valid usernames
NewUsernames == {"al", "bob", "eve"}
NewPasswords == {"pass123", "password"}
Emails == {"a@b", "a@b.co", "n@b.co"}
\* what authenticate is called with: "passwore" is one character away from
\* the registered password
LoginUsernames == {"", "bob", "eve"}
LoginPasswords == {"", "password", "passwore"}

Salts == 1..MaxSalt
Keys == 1..MaxKey

\* a user id as the caller passes it: an int, or a str
IntId(n) == [type |-> "int", n |-> n, s |-> ""]
StrId(s) == [type |-> "str", n |-> 0, s |-> s]
IdArgs == {IntId(1), IntId(2), StrId("2"), StrId("x")}

\* re.match(email_pattern, s) is not None; the pattern is matched once
\* against every string the callers pass as an email
Matching == {s \in Emails : RegexMatch(Chars(s))}
email_match(s) == s \in Matching
\* whether int(s) succeeds, and its value
IsIntLiteral(s) == IsDecimal(Chars(s))
PyIntStr(s) == DecimalValue(Chars(s))

\* where the storage engine fails during a call, if it does
Faults == {"none", "connect", "execute", "commit"}

(***************************** Python values *******************************)
PyNone == [type |-> "NoneType", val |-> <<>>]
PyBool(b) == [type |-> "bool", val |-> <<IF b THEN 1 ELSE 0>>]
PyInt(n) == [type |-> "int", val |-> <<n>>]
PyTuple(t) == [type |-> "tuple", val |-> t]

\* Python's ==  on the values the methods return: True == 1 and False == 0
PyEq(a, b) == a.val = b.val

\* how a call ends: a returned value, or an exception of class exc
Return(v) == [exc |-> "none", msg |-> "", ret |-> v]
Raise(e, m) == [exc |-> e, msg |-> m, ret |-> PyNone]

(***************************** bcrypt **************************************)
\* bcrypt.hashpw / bcrypt.checkpw as the primitive's contract: the hash is a
\* function of the salt and the password, carries its salt, and is injective
hashpw(password, salt) == [salt |-> salt, digest |-> <<salt, password>>]
checkpw_saltOnly(password, hashed) == hashpw(password, hashed.salt).salt = hashed.salt
checkpw(password, hashed) == hashpw(password, hashed.salt) = hashed

(***************************** the table ***********************************)
\* id INTEGER PRIMARY KEY: the rowid SQLite assigns is the largest one + 1
NextRowId(t) == IF Len(t) = 0 THEN 1 ELSE t[Len(t)].id + 1

\* username TEXT UNIQUE, api_key TEXT UNIQUE
UniqueViolation_keyOnly(t, username, api_key) ==
    \E i \in 1..Len(t) : t[i].api_key = api_key
UniqueViolation(t, username, api_key) ==
    \E i \in 1..Len(t) : t[i].username = username \/ t[i].api_key = api_key

\* INSERT INTO users (username, password, email, api_key) VALUES (?, ?, ?, ?)
Insert(t, username, password, email, api_key) ==
    Append(t, [id |-> NextRowId(t), username |-> username,
               password |-> password, email |-> email, api_key |-> api_key])

\* cursor.fetchone() after SELECT ... WHERE username = ? : indices of the rows
SelectByUsername_any(t, username) == 1..Len(t)
SelectByUsername(t, username) == {i \in 1..Len(t) : t[i].username = username}
\* cursor.fetchone() after SELECT ... WHERE id = ?
SelectById(t, id) == {i \in 1..Len(t) : t[i].id = id}

\* UPDATE users SET email = ? WHERE id = ?
Update(t, email, id) ==
    [i \in 1..Len(t) |-> IF t[i].id = id THEN [t[i] EXCEPT !.email = email]
                                          ELSE t[i]]
\* cursor.rowcount after the UPDATE: the rows the WHERE clause matched,
\* whether or not the new value differs from the old one
RowCount_changed(t, email, id) ==
    Cardinality({i \in SelectById(t, id) : t[i].email # email})
RowCount(t, email, id) == Cardinality(SelectById(t, id))

(***************************** get_connection ******************************)
\* What one use of `with self.get_connection() as conn:` does to the
\* connection. sqlite3.connect failing leaves `connection` unbound and the
\* finally clause raises UnboundLocalError; otherwise the finally clause
\* closes the connection whether or not the body raised.
get_connection_noFinally(fault, bodyRaised) ==
    IF fault = "connect"
    THEN [acquired |-> 0, released |-> 0]
    ELSE [acquired |-> 1, released |-> IF bodyRaised THEN 0 ELSE 1]
get_connection(fault, bodyRaised) ==
    IF fault = "connect"
    THEN [acquired |-> 0, released |-> 0]
    ELSE [acquired |-> 1, released |-> 1]

\* The result of a unit of work: the durable table, the outcome, the fault
\* that occurred and the connection's acquire/release.
Done(t, out, fault, conn) ==
    [users |-> t, out |-> out, fault |-> fault,
     acquired |-> conn.acquired, released |-> conn.released]

\* no storage access at all
NoStorage(t, out) ==
    Done(t, out, "none", [acquired |-> 0, released |-> 0])

\* connection.close() with an uncommitted transaction discards it
CloseUncommitted_keeps(durable, pending) == pending
CloseUncommitted(durable, pending) == durable

\* A with-block run on the durable table t. body is what the statements
\* inside the block do once the connection is open: the table as the
\* connection sees it (pending), whether conn.commit() ran (committed), the
\* outcome and the fault that occurred.
WithConnection(t, fault, body) ==
    IF fault = "connect"
    THEN Done(t, Raise("UnboundLocalError", "connection"), "connect",
              get_connection(fault, TRUE))
    ELSE Done(IF body.committed THEN body.pending
                                ELSE CloseUncommitted(t, body.pending),
              body.out, body.fault,
              get_connection(fault, body.out.exc # "none"))

Body(pending, committed, out, fault) ==
    [pending |-> pending, committed |-> committed, out |-> out, fault |-> fault]

(***************************** create_tables *******************************)
\* CREATE TABLE IF NOT EXISTS users (...); conn.commit(). Called by __init__,
\* whose exceptions reach the caller as they are.
create_tables(t, fault) ==
    WithConnection(t, fault,
        IF fault = "execute"
        THEN Body(t, FALSE, Raise("OperationalError", ""), "execute")
        ELSE IF fault = "commit"
        THEN Body(t, FALSE, Raise("OperationalError", ""), "commit")
        ELSE Body(t, TRUE, Return(PyNone), "none"))

(***************************** validate_input ******************************)
validate_input(username, email) ==
    IF PyLen(username) = 0 \/ PyLen(username) < 3
    THEN Raise("ValueError", "Username must be a string of at least 3 characters")
    ELSE IF PyLen(email) = 0 \/ ~email_match(email)
    THEN Raise("ValueError", "Invalid email format")
    ELSE Return(PyBool(TRUE))

(***************************** add_user ************************************)
\* lines 62-63
CheckPassword(password) ==
    IF PyLen(password) = 0 \/ PyLen(password) < 8
    THEN Raise("ValueError", "Password must be a string of at least 8 characters")
    ELSE Return(PyBool(TRUE))

\* the with-block of add_user: INSERT, commit, return True
AddUserBody(t, username, hashed, email, api_key, fault) ==
    IF fault = "execute"
    THEN Body(t, FALSE, Raise("OperationalError", ""), "execute")
    ELSE IF UniqueViolation(t, username, api_key)
    THEN Body(t, FALSE, Raise("IntegrityError", ""), "none")
    ELSE IF fault = "commit"
    THEN Body(Insert(t, username, hashed, email, api_key), FALSE,
              Raise("OperationalError", ""), "commit")
    ELSE Body(Insert(t, username, hashed, email, api_key), TRUE,
              Return(PyBool(TRUE)), "none")

\* the try block of add_user
AddUserTry(t, username, password, email, salt, api_key, fault) ==
    LET validated == validate_input(username, email)
        checked == CheckPassword(password)
    IN  IF validated.exc # "none" THEN NoStorage(t, validated)
        ELSE IF checked.exc # "none" THEN NoStorage(t, checked)
        ELSE WithConnection(t, fault,
            AddUserBody(t, username, hashpw(password, salt), email, api_key, fault))

\* the except clauses of add_user
AddUserExcept_noIntegrity(out) ==
    IF out.exc = "none" THEN out
    ELSE Raise("RuntimeError", "Failed to create user")
AddUserExcept(out) ==
    IF out.exc = "none" THEN out
    ELSE IF out.exc = "IntegrityError"
    THEN Raise("ValueError", "Username already exists")
    ELSE Raise("RuntimeError", "Failed to create user")

add_user(t, username, password, email, salt, api_key, fault) ==
    [AddUserTry(t, username, password, email, salt, api_key, fault)
        EXCEPT !.out = AddUserExcept(@)]

(***************************** authenticate ********************************)
AuthenticateBody(t, username, password, fault) ==
    LET found == SelectByUsername(t, username)
        user == t[CHOOSE i \in found : TRUE]
    IN  IF fault = "execute"
        THEN Body(t, FALSE, Raise("OperationalError", ""), "execute")
        ELSE IF found # {} /\ checkpw(password, user.password)
        THEN Body(t, FALSE, Return(PyInt(user.id)), "none")
        ELSE Body(t, FALSE, Return(PyNone), "none")

AuthenticateTry(t, username, password, fault) ==
    IF PyLen(username) = 0 \/ PyLen(password) = 0
    THEN NoStorage(t, Return(PyNone))
    ELSE WithConnection(t, fault, AuthenticateBody(t, username, password, fault))

AuthenticateExcept(out) ==
    IF out.exc = "none" THEN out
    ELSE Raise("RuntimeError", "Authentication failed")

authenticate(t, username, password, fault) ==
    [AuthenticateTry(t, username, password, fault)
        EXCEPT !.out = AuthenticateExcept(@)]

(***************************** get_user_by_id ******************************)
\* `x if isinstance(x, int) else int(x)`: whether it raises, and its value
CoerceFails(x) == x.type # "int" /\ ~IsIntLiteral(x.s)
Coerce(x) == IF x.type = "int" THEN x.n ELSE PyIntStr(x.s)

\* SELECT id, username, email
Projection_all(row) == <<row.id, row.username, row.password, row.email, row.api_key>>
Projection(row) == <<row.id, row.username, row.email>>

GetUserBody(t, id, fault) ==
    LET found == SelectById(t, id)
        result == t[CHOOSE i \in found : TRUE]
    IN  IF fault = "execute"
        THEN Body(t, FALSE, Raise("OperationalError", ""), "execute")
        ELSE IF found # {}
        THEN Body(t, FALSE, Return(PyTuple(Projection(result))), "none")
        ELSE Body(t, FALSE, Return(PyNone), "none")

GetUserTry(t, user_id, fault) ==
    IF CoerceFails(user_id)
    THEN NoStorage(t, Raise("ValueError", "invalid literal for int()"))
    ELSE WithConnection(t, fault, GetUserBody(t, Coerce(user_id), fault))

GetUserExcept(out) ==
    IF out.exc = "none" THEN out
    ELSE IF out.exc = "ValueError"
    THEN Raise("ValueError", "User ID must be a valid integer")
    ELSE Raise("RuntimeError", "Failed to retrieve user")

get_user_by_id(t, user_id, fault) ==
    [GetUserTry(t, user_id, fault) EXCEPT !.out = GetUserExcept(@)]

(***************************** update_email ********************************)
UpdateEmailBody(t, id, new_email, fault) ==
    IF fault = "execute"
    THEN Body(t, FALSE, Raise("OperationalError", ""), "execute")
    ELSE IF fault = "commit"
    THEN Body(Update(t, new_email, id), FALSE, Raise("OperationalError", ""), "commit")
    ELSE Body(Update(t, new_email, id), TRUE,
              Return(PyBool(RowCount(t, new_email, id) > 0)), "none")

UpdateEmailTry(t, user_id, current_user_id, new_email, fault) ==
    IF CoerceFails(user_id) \/ CoerceFails(current_user_id)
    THEN NoStorage(t, Raise("ValueError", "invalid literal for int()"))
    ELSE IF Coerce(user_id) # Coerce(current_user_id)
    THEN NoStorage(t, Raise("PermissionError",
                            "Not authorized to update this user's email"))
    ELSE IF PyLen(new_email) = 0 \/ ~email_match(new_email)
    THEN NoStorage(t, Raise("ValueError", "Invalid email format"))
    ELSE WithConnection(t, fault,
            UpdateEmailBody(t, Coerce(user_id), new_email, fault))

UpdateEmailExcept(out) ==
    IF out.exc = "none" THEN out
    ELSE Raise("RuntimeError", "Failed to update email")

update_email(t, user_id, current_user_id, new_email, fault) ==
    [UpdateEmailTry(t, user_id, current_user_id, new_email, fault)
        EXCEPT !.out = UpdateEmailExcept(@)]

(***************************** the state machine ***************************)
\* the record kept of a call: what the caller passed and what it got back
Call(op, args, r) ==
    [op |-> op, args |-> args, fault |-> r.fault,
     exc |-> r.out.exc, msg |-> r.out.msg, ret |-> r.out.ret,
     acquired |-> r.acquired, released |-> r.released]

\* state after UserDatabase(db_path) on a fresh file
Init ==
    /\ users = <<>>
    /\ openConns = 0
    /\ created = <<>>
    /\ prev = <<>>
    /\ last = Call("__init__", <<>>, create_tables(<<>>, "none"))

\* a call takes effect: the table, the connections left open, the record
Effect(op, args, r) ==
    /\ users' = r.users
    /\ prev' = users
    /\ openConns' = openConns + r.acquired - r.released
    /\ last' = Call(op, args, r)

\* The storage engine can fail only in a call that reaches it; the salt and
\* the api key make a difference only once the INSERT runs.
FaultsIf(reached) == IF reached THEN Faults ELSE {"none"}
SaltsIf(inserting) == IF inserting THEN Salts ELSE {1}
KeysIf(inserting) == IF inserting THEN Keys ELSE {1}

\* whether a call gets as far as opening a connection
Reaches(r) == r.acquired = 1

\* another UserDatabase(db_path) on the same file
Construct ==
    \E fault \in Faults :
        /\ Effect("__init__", <<>>, create_tables(users, fault))
        /\ UNCHANGED created

AddUser ==
    \E username \in NewUsernames, password \in NewPasswords, email \in Emails :
    LET reached == Reaches(add_user(<<>>, username, password, email, 1, 1, "none"))
    IN  \E fault \in FaultsIf(reached) :
        \E salt \in SaltsIf(reached /\ fault \in {"none", "commit"}),
           api_key \in KeysIf(reached /\ fault \in {"none", "commit"}) :
            LET r == add_user(users, username, password, email, salt, api_key, fault)
            IN  /\ Effect("add_user", <<username, password, email>>, r)
                /\ created' = IF r.out.exc = "none"
                              THEN Append(created, [id |-> r.users[Len(r.users)].id,
                                                    username |-> username,
                                                    password |-> password])
                              ELSE created

Authenticate ==
    \E username \in LoginUsernames, password \in LoginPasswords :
    LET reached == Reaches(authenticate(<<>>, username, password, "none"))
    IN  \E fault \in FaultsIf(reached) \ {"commit"} :
            LET r == authenticate(users, username, password, fault)
            IN  /\ Effect("authenticate", <<username, password>>, r)
                /\ UNCHANGED created

GetUserById ==
    \E user_id \in IdArgs :
    LET reached == Reaches(get_user_by_id(<<>>, user_id, "none"))
    IN  \E fault \in FaultsIf(reached) \ {"commit"} :
            LET r == get_user_by_id(users, user_id, fault)
            IN  /\ Effect("get_user_by_id", <<user_id>>, r)
                /\ UNCHANGED created

UpdateEmail ==
    \E user_id \in IdArgs, current_user_id \in IdArgs, new_email \in Emails :
    LET reached == Reaches(update_email(<<>>, user_id, current_user_id,
                                        new_email, "none"))
    IN  \E fault \in FaultsIf(reached) :
            LET r == update_email(users, user_id, current_user_id, new_email, fault)
            IN  /\ Effect("update_email",
                          <<user_id, current_user_id, new_email>>, r)
                /\ UNCHANGED created

Next == Construct \/ AddUser \/ Authenticate \/ GetUserById \/ UpdateEmail

Spec == Init /\ [][Next]_vars

(***************************** the claims **********************************)
\* The outcomes the error taxonomy names, as the code raises them:
\* ValidationError is the ValueError of validate_input and of the password
\* and email checks, DuplicateError the ValueError of the IntegrityError
\* clause, AuthorizationError the PermissionError of update_email,
\* StorageError the RuntimeError of the catch-all clauses.
ValidationMessages ==
    {"Username must be a string of at least 3 characters",
     "Invalid email format",
     "Password must be a string of at least 8 characters"}
IsValidationError == last.exc = "ValueError" /\ last.msg \in ValidationMessages
IsDuplicateError == last.exc = "ValueError" /\ last.msg = "Username already exists"
IsAuthorizationError == last.exc = "PermissionError"
IsStorageError == last.exc = "RuntimeError"

Returned == last.exc = "none"
Exists(t, id) == \E i \in 1..Len(t) : t[i].id = id
RowOf(t, id) == t[CHOOSE i \in 1..Len(t) : t[i].id = id]

\* a valid triple, as the preconditions of create state it
ValidTriple(username, password, email) ==
    PyLen(username) >= 3 /\ email_match(email) /\ PyLen(password) >= 8

\* the last call was add_user with a valid triple whose username was taken
DuplicateCreate ==
    /\ last.op = "add_user"
    /\ ValidTriple(last.args[1], last.args[2], last.args[3])
    /\ \E i \in 1..Len(prev) : prev[i].username = last.args[1]

\* C1: a create with a valid triple whose username already exists fails with
\* DuplicateError unless the storage engine fails, adds no row and leaves the
\* existing rows as they were; no validation failure and no storage failure
\* of create has that outcome.
C1_DuplicateCreateRejected ==
    /\ (DuplicateCreate /\ last.fault = "none") =>
            IsDuplicateError /\ ~IsStorageError /\ users = prev
    /\ (/\ last.op = "add_user"
        /\ \/ ~ValidTriple(last.args[1], last.args[2], last.args[3])
           \/ last.fault # "none") => ~IsDuplicateError
    /\ DuplicateCreate => users = prev

C1_Witness ==
    /\ DuplicateCreate
    /\ IsDuplicateError
    /\ \E i \in 1..Len(prev) :
        prev[i].username = last.args[1] /\ prev[i].email # last.args[3]

\* the last call was update_email with two ids that differ
UnauthorizedUpdate ==
    /\ last.op = "update_email"
    /\ ~CoerceFails(last.args[1]) /\ ~CoerceFails(last.args[2])
    /\ Coerce(last.args[1]) # Coerce(last.args[2])

\* C2: update_email with requester_id # target_id fails with
\* AuthorizationError, an outcome that is neither ValidationError nor
\* StorageError, and leaves every email unchanged.
C2_UnauthorizedUpdateRaisesAuthorizationError ==
    UnauthorizedUpdate =>
        IsAuthorizationError /\ ~IsStorageError /\ ~IsValidationError /\ users = prev

\* C3: create with a short username, a non-matching email or a short password
\* fails with ValidationError, an outcome that is neither DuplicateError nor
\* StorageError, without opening a connection or changing the table.
C3_InvalidCreateRaisesValidationError ==
    (last.op = "add_user" /\ ~ValidTriple(last.args[1], last.args[2], last.args[3])) =>
        /\ IsValidationError /\ ~IsStorageError /\ ~IsDuplicateError
        /\ last.acquired = 0
        /\ users = prev

\* C4 as stated: a successful create returns the id of the new record
\* (compared as Python compares, True == 1).
C4_CreateReturnsId ==
    (last.op = "add_user" /\ Returned) => PyEq(last.ret, PyInt(users[Len(users)].id))

\* C4 as amended: a successful create returns True and inserts one record
\* with the next rowid; for every record created, authenticate with the
\* username and password it was created with returns that record's id, and
\* get_user_by_id of that id returns that record.
C4_CreateReturnsTrue ==
    /\ (last.op = "add_user" /\ Returned) =>
            /\ last.ret = PyBool(TRUE)
            /\ Len(users) = Len(prev) + 1
            /\ users[Len(users)].id = NextRowId(prev)
            /\ users[Len(users)].username = last.args[1]
    /\ \A k \in 1..Len(created) :
            /\ authenticate(users, created[k].username, created[k].password,
                            "none").out = Return(PyInt(created[k].id))
            /\ get_user_by_id(users, IntId(created[k].id), "none").out.ret.type = "tuple"
            /\ get_user_by_id(users, IntId(created[k].id), "none").out.ret.val[2]
                    = created[k].username

C4_Witness ==
    /\ last.op = "add_user" /\ Returned
    /\ Len(users) = 2
    /\ ~PyEq(last.ret, PyInt(users[2].id))

\* the record registered under the username and password of the last call
Registered(username, password) ==
    {k \in 1..Len(created) :
        created[k].username = username /\ created[k].password = password}

\* C5: without a storage failure authenticate never raises; it returns the id
\* of the record registered under that username with that password, and None
\* when either is empty, no record has the username or the password differs.
C5_AuthenticateResult ==
    (last.op = "authenticate" /\ last.fault = "none") =>
        /\ Returned
        /\ users = prev
        /\ IF /\ last.args[1] # "" /\ last.args[2] # ""
              /\ Registered(last.args[1], last.args[2]) # {}
           THEN \E k \in Registered(last.args[1], last.args[2]) :
                    last.ret = PyInt(created[k].id)
           ELSE last.ret = PyNone

C5_Witness ==
    /\ last.op = "authenticate" /\ last.fault = "none"
    /\ last.args[2] = "passwore"
    /\ Registered(last.args[1], "password") # {}
    /\ last.ret = PyNone

\* the last call was update_email(t, t, valid email) and storage did not fail
AuthorizedUpdate ==
    /\ last.op = "update_email"
    /\ ~CoerceFails(last.args[1]) /\ ~CoerceFails(last.args[2])
    /\ Coerce(last.args[1]) = Coerce(last.args[2])
    /\ email_match(last.args[3])
    /\ last.fault = "none"

\* C6: update_email(t, t, valid email) returns True exactly when a record
\* with id t exists, and get_user_by_id(t) then returns that record with the
\* new email; otherwise it returns False and the table is unchanged.
C6_UpdateEmailResult ==
    AuthorizedUpdate =>
        LET t == Coerce(last.args[1]) IN
        /\ Returned
        /\ last.ret = PyBool(Exists(prev, t))
        /\ Exists(prev, t) =>
                get_user_by_id(users, IntId(t), "none").out
                    = Return(PyTuple(<<t, RowOf(prev, t).username, last.args[3]>>))
        /\ ~Exists(prev, t) => users = prev

C6_Witness ==
    /\ AuthorizedUpdate
    /\ last.ret = PyBool(TRUE)
    /\ RowOf(prev, Coerce(last.args[1])).email # last.args[3]

\* C7: no two records share a username or an id, and every record keeps the
\* id and the username it was created with.
C7_UniqueAndImmutable ==
    /\ \A i, j \in 1..Len(users) :
            i # j => users[i].username # users[j].username /\ users[i].id # users[j].id
    /\ Len(users) = Len(created)
    /\ \A k \in 1..Len(created) :
            users[k].id = created[k].id /\ users[k].username = created[k].username

C7_Witness ==
    /\ Len(users) = 2
    /\ last.op = "update_email" /\ last.ret = PyBool(TRUE)
    /\ users # prev

\* C8: without a storage failure get_user_by_id of an id returns exactly
\* (id, username, email) of the record with that id, and None when there is
\* none; the result holds three fields, so neither the hash nor the api key.
C8_GetUserProjection ==
    (last.op = "get_user_by_id" /\ ~CoerceFails(last.args[1]) /\ last.fault = "none") =>
        LET id == Coerce(last.args[1]) IN
        /\ Returned
        /\ users = prev
        /\ IF Exists(users, id)
           THEN /\ last.ret.type = "tuple" /\ Len(last.ret.val) = 3
                /\ last.ret.val = <<id, RowOf(users, id).username, RowOf(users, id).email>>
           ELSE last.ret = PyNone

C8_Witness ==
    /\ last.op = "get_user_by_id"
    /\ last.args[1] = StrId("2")
    /\ last.ret.type = "tuple"

\* C9: no connection is open between operations: every call that opened one
\* released it, also when it ended with an exception.
C9_ConnectionReleased ==
    /\ openConns = 0
    /\ last.acquired = last.released

C9_Witness ==
    /\ last.acquired = 1
    /\ last.released = 1
    /\ ~Returned
    /\ last.op = "add_user"

\* C10: the table changes only by a successful create, which appends one row
\* and changes no other, and by an update_email that returns True, which
\* changes only the email of the row with the target id; any other outcome
\* leaves the table as it was.
C10_Frame ==
    /\ (last.op = "add_user" /\ Returned) =>
            Len(users) = Len(prev) + 1 /\ SubSeq(users, 1, Len(prev)) = prev
    /\ (last.op = "update_email" /\ Returned /\ last.ret = PyBool(TRUE)) =>
            /\ Len(users) = Len(prev)
            /\ \A i \in 1..Len(prev) :
                users[i] = IF prev[i].id = Coerce(last.args[1])
                           THEN [prev[i] EXCEPT !.email = last.args[3]]
                           ELSE prev[i]
    /\ ~ \/ last.op = "add_user" /\ Returned
         \/ last.op = "update_email" /\ Returned /\ last.ret = PyBool(TRUE)
       => users = prev

C10_Witness ==
    /\ last.op = "update_email"
    /\ last.fault = "commit"
    /\ ~Returned
    /\ Exists(prev, Coerce(last.args[1]))
    /\ RowOf(prev, Coerce(last.args[1])).email # last.args[3]

====
